---- MODULE Spec2Model ----
(***************************************************************************)
(* Model of the decision-tree trainer of padster/eego (package trees):     *)
(* NewForest, Forest.Train, precalcBestSplit, splitReduction, presplitOn,  *)
(* convertToBranch, the nodeQueue priority queue driven by container/heap, *)
(* and the introspection methods DecisionNodes and AverageErrors.          *)
(*                                                                         *)
(* Go slices are modelled as views (start, len) into one backing array,    *)
(* `arena`, which is the array the root's inputs were made with: a child's *)
(* inputs n.inputs[:k] and n.inputs[k:] share that array with the parent.  *)
(* Node pointers are indices into the table `nodes`; 0 is nil.             *)
(* A Go panic is the control state "panicked" with its kind in `failure`.  *)
(*                                                                         *)
(* Spec and FairSpec run NewForest and Train.  ScoreSpec and SplitSpec     *)
(* apply scoreForFrameAndFeature and splitReduction on their own to the    *)
(* fields of a Forest and record the call and its result in `call`.        *)
(***************************************************************************)
EXTENDS Integers, Sequences, FiniteSets, Bags, TLC

(* ---------------------------- bounds ---------------------------------- *)
\* longest sample sequence handed to Train
MaxLen == 6
\* sample values are drawn from 0..MaxVal
MaxVal == 1
\* frame sizes handed to NewForest are drawn from 0..MaxFrameSize
MaxFrameSize == 2
\* tree counts handed to NewForest are drawn from -1..MaxTreeCount
MaxTreeCount == 2
\* minMisclassified handed to NewForest is drawn from 0..MaxMinMis
MaxMinMis == 3
\* the growth loop is not continued once a Train call has made the node table
\* MaxNodes nodes longer
MaxNodes == 10
\* the growth loop is not continued once a node was evaluated or enqueued
\* MaxHistory times
MaxHistory == 2
\* Train is called on one Forest at most MaxTrainCalls times
MaxTrainCalls == 2
\* longest sample sequence handed to Train together with a label sequence of
\* another length (labels are then up to one longer)
MaxMismatchLen == 3
\* the calls of scoreForFrameAndFeature that are checked on their own use frame
\* sizes 1..MaxScoreFrameSize, sample sequences of up to MaxScoreLen values
\* from 0..MaxScoreVal, and feature indexes -1..2*MaxScoreFrameSize
MaxScoreFrameSize == 3
MaxScoreLen == 4
MaxScoreVal == 2
\* the calls of splitReduction that are checked on their own are made on the
\* root of sample sequences of up to MaxSplitLen values from 0..MaxSplitVal
MaxSplitLen == 4
MaxSplitVal == 2

Nil == 0

VARIABLES
    pc,                 \* "new", "ready", "training", "done", "panicked"
    failure,            \* kind of the panic, "none" when there is none
    frameSize,          \* Forest.frameSize
    treeCount,          \* Forest.treeCount
    minMisclassified,   \* Forest.minMisclassified
    allowed,            \* Forest.allowed[0]
    roots,              \* Forest.roots
    leafQueue,          \* Forest.leafQueue
    trainFrameCount,    \* Forest.trainFrameCount
    trainSamples,       \* Forest.trainSamples
    trainExpected,      \* Forest.trainExpected
    nodes,              \* every node allocated by the current Train call
    arena,              \* backing array of the root's inputs
    nextLeaf,           \* Train's local nextLeaf: the node popped last
    evaluated,          \* history: bag of the nodes precalcBestSplit was called on
    enqueued,           \* history: bag of the nodes put on the leafQueue
    call,               \* the helper call made last, with what it gave back
    previous            \* history: what the earlier Train calls on this Forest left

vars == <<pc, failure, frameSize, treeCount, minMisclassified, allowed, roots,
          leafQueue, trainFrameCount, trainSamples, trainExpected, nodes, arena,
          nextLeaf, evaluated, enqueued, call, previous>>

(* ---------------------------- helpers --------------------------------- *)
\* Go slice element s[i] (0-based) is in range
InRange(s, i) == i >= 0 /\ i < Len(s)

\* Go slice element s[i] (0-based)
At(s, i) == s[i + 1]

\* Go integer division, truncating toward zero
GoDiv(a, b) == IF a >= 0 THEN a \div b ELSE -((-a) \div b)

\* Op applied to the value of e (e is evaluated once, before Op is)
Bind(e, Op(_)) == CHOOSE r \in {Op(v) : v \in {e}} : TRUE

SeqSwap(s, i, j) == [s EXCEPT ![i + 1] = s[j + 1], ![j + 1] = s[i + 1]]

\* all sequences over S of length 0..n
RECURSIVE SeqsUpTo(_, _)
SeqsUpTo(S, n) ==
    IF n = 0 THEN {<<>>}
    ELSE LET shorter == SeqsUpTo(S, n - 1)
         IN shorter \cup {Append(s, x) : s \in {t \in shorter : Len(t) = n - 1}, x \in S}

SeqsOfLen(S, n) == {s \in SeqsUpTo(S, n) : Len(s) = n}

\* permutations of a finite set, as sequences
RECURSIVE PermsOf(_)
PermsOf(S) ==
    IF S = {} THEN {<<>>}
    ELSE UNION {{<<x>> \o p : p \in PermsOf(S \ {x})} : x \in S}

RECURSIVE BagOfSeq(_)
BagOfSeq(s) == IF s = <<>> THEN EmptyBag ELSE BagOfSeq(Tail(s)) (+) SetToBag({Head(s)})

(* ------------------------------ nodes --------------------------------- *)
\* the node struct literal of Train and presplitOn
NewNode(parent, start, len, classifyAsTrue, misclassified, originalRoot) ==
    [parent |-> parent, start |-> start, len |-> len,
     classifyAsTrue |-> classifyAsTrue, misclassified |-> misclassified,
     decideFeature |-> -1, decideCutoff |-> -1,
     lowerChild |-> Nil, highEqChild |-> Nil,
     isLeaf |-> TRUE, originalRoot |-> originalRoot]

\* n.inputs, read through the backing array
Inputs(ar, nd) == SubSeq(ar, nd.start + 1, nd.start + nd.len)

\* the training context the helpers read from the Forest
Ctx(fs, samples, expected) == [frameSize |-> fs, samples |-> samples, expected |-> expected]

(* ------------------------ feature extractor --------------------------- *)
\* scoreForFrameAndFeature returns instead of panicking
ScoreOK(ctx, frame, feature) ==
    IF feature < ctx.frameSize
    THEN InRange(ctx.samples, frame + feature)
    ELSE IF (feature - ctx.frameSize) < (ctx.frameSize - 1)
    THEN LET first == frame + (feature - ctx.frameSize)
         IN InRange(ctx.samples, first + 1) /\ InRange(ctx.samples, first)
    ELSE FALSE

scoreForFrameAndFeature(ctx, frame, feature) ==
    IF feature < ctx.frameSize
    THEN At(ctx.samples, frame + feature)
    ELSE LET first == frame + (feature - ctx.frameSize)
         IN At(ctx.samples, first + 1) - At(ctx.samples, first)

\* how a call of scoreForFrameAndFeature ends: "none" when it returns, else
\* the panic of the slice index or of the last else branch
ScoreErr(ctx, frame, feature) ==
    IF feature < ctx.frameSize
    THEN IF InRange(ctx.samples, frame + feature) THEN "none" ELSE "index out of range"
    ELSE IF (feature - ctx.frameSize) < (ctx.frameSize - 1)
    THEN LET first == frame + (feature - ctx.frameSize)
         IN IF InRange(ctx.samples, first + 1) /\ InRange(ctx.samples, first)
            THEN "none" ELSE "index out of range"
    ELSE "TODO - support more features?"

\* LabelOK when the label index is i + f.frameSize
LabelOKOffByOne(ctx, frame) == InRange(ctx.expected, frame + ctx.frameSize)

\* label of a frame: f.trainExpected[frame + f.frameSize - 1]
LabelOK(ctx, frame) == InRange(ctx.expected, frame + ctx.frameSize - 1)
FrameLabel(ctx, frame) == At(ctx.expected, frame + ctx.frameSize - 1)

(* --------------------------- DualSortII ------------------------------- *)
\* DualSortII.Less on two (V1, V2) pairs
DualSortLess(a, b) == a[1] < b[1] \/ ((a[1] = b[1]) /\ (a[2] < b[2]))

\* sort.Sort(dsii): the pairs in the order DualSortII.Less fixes.  The pair at
\* index i ends up behind the pairs that are Less than it (and, among pairs
\* that are equal, behind those of a smaller index: equal pairs are the same)
SortPairs(unsorted) ==
    Bind(unsorted, LAMBDA s :
      LET Before(j, i) == DualSortLess(s[j], s[i]) \/ (s[j] = s[i] /\ j < i)
          Rank(i) == 1 + Cardinality({j \in 1..Len(s) : Before(j, i)})
      IN [k \in 1..Len(s) |-> s[CHOOSE i \in 1..Len(s) : Rank(i) = k]])

(* --------------------------- splitReduction --------------------------- *)
splitDetails(splitValue, splitFeature, trueBelow, misses, missesBelow, missesAbove) ==
    [splitValue |-> splitValue, splitFeature |-> splitFeature, trueBelow |-> trueBelow,
     misses |-> misses, missesBelow |-> missesBelow, missesAbove |-> missesAbove]

\* every index splitReduction uses on samples and labels is in range
splitReductionOK(ctx, inputs, feature) ==
    \A i \in 1..Len(inputs) : ScoreOK(ctx, inputs[i], feature) /\ LabelOK(ctx, inputs[i])

\* the candidate the sweep keeps at one position: the cheaper labelling of the
\* below side, adopted only when it beats the best so far
ConsiderSplit(thisSplit, feature, c, best) ==
    LET missAsFalseBelow == c.trueBelow + c.falseAbove
        missAsTrueBelow == c.falseBelow + c.trueAbove
    IN IF missAsTrueBelow < missAsFalseBelow
       THEN IF missAsTrueBelow < best.misses
            THEN splitDetails(thisSplit, feature, TRUE, missAsTrueBelow, c.falseBelow, c.trueAbove)
            ELSE best
       ELSE IF missAsFalseBelow < best.misses
            THEN splitDetails(thisSplit, feature, FALSE, missAsFalseBelow, c.trueBelow, c.falseAbove)
            ELSE best

\* the running counts after the frame at the sweep position moved below
AdvanceCounts(ctx, frame, c) ==
    IF FrameLabel(ctx, frame) = 1
    THEN [c EXCEPT !.trueBelow = @ + 1, !.trueAbove = @ - 1]
    ELSE [c EXCEPT !.falseBelow = @ + 1, !.falseAbove = @ - 1]

\* the loop over splitBefore; considerSplit is true at every position
RECURSIVE Sweep(_, _, _, _, _, _)
Sweep(ctx, dsii, feature, splitBefore, c, best) ==
    IF splitBefore >= Len(dsii) THEN best
    ELSE LET thisSplit == At(dsii, splitBefore)[1]
             considerSplit == TRUE
             next == IF considerSplit THEN ConsiderSplit(thisSplit, feature, c, best) ELSE best
         IN Bind(<<AdvanceCounts(ctx, At(dsii, splitBefore)[2], c), next>>,
                 LAMBDA v : Sweep(ctx, dsii, feature, splitBefore + 1, v[1], v[2]))

\* the four running counts before the sweep, from the node's stored counts
SeedCounts(nd) ==
    LET nFrames == nd.len
    IN IF nd.classifyAsTrue
       THEN [trueBelow |-> 0, trueAbove |-> nFrames - nd.misclassified,
             falseBelow |-> 0, falseAbove |-> nd.misclassified]
       ELSE [trueBelow |-> 0, trueAbove |-> nd.misclassified,
             falseBelow |-> 0, falseAbove |-> nFrames - nd.misclassified]

splitReduction(ctx, ar, nd, feature) ==
    Bind(Inputs(ar, nd), LAMBDA inputs :
      LET dsii == SortPairs([i \in 1..Len(inputs) |->
                                <<scoreForFrameAndFeature(ctx, inputs[i], feature), inputs[i]>>])
      IN Bind(dsii, LAMBDA sorted :
                Sweep(ctx, sorted, feature, 0, SeedCounts(nd),
                      splitDetails(-1, -1, FALSE, nd.misclassified, -1, -1))))

(* ----------------------------- presplitOn ----------------------------- *)
\* the frame belongs to the front part of the partition
InFront(ctx, split, frame) ==
    (scoreForFrameAndFeature(ctx, frame, split.splitFeature) < split.splitValue) = split.trueBelow

RECURSIVE AdvanceLo(_, _, _, _, _)
AdvanceLo(ctx, split, inp, lo, hi) ==
    IF lo < hi /\ InFront(ctx, split, At(inp, lo))
    THEN AdvanceLo(ctx, split, inp, lo + 1, hi) ELSE lo

RECURSIVE RetreatHi(_, _, _, _, _)
RetreatHi(ctx, split, inp, lo, hi) ==
    IF lo < hi /\ ~InFront(ctx, split, At(inp, hi))
    THEN RetreatHi(ctx, split, inp, lo, hi - 1) ELSE hi

\* SwapInputs when only inputs[lo] is assigned
SwapInputsOneWay(inp, lo, hi) == [inp EXCEPT ![lo + 1] = inp[hi + 1]]

\* the exchange of the two misplaced frames
SwapInputs(inp, lo, hi) == SeqSwap(inp, lo, hi)

\* the outer two-pointer loop; yields the reordered inputs and lo
RECURSIVE PartitionLoop(_, _, _, _, _)
PartitionLoop(ctx, split, inp, lo, hi) ==
    IF lo < hi
    THEN Bind(AdvanceLo(ctx, split, inp, lo, hi), LAMBDA lo2 :
           Bind(RetreatHi(ctx, split, inp, lo2, hi), LAMBDA hi2 :
             Bind(IF lo2 # hi2 THEN SwapInputs(inp, lo2, hi2) ELSE inp, LAMBDA inp2 :
               PartitionLoop(ctx, split, inp2, lo2, hi2))))
    ELSE [inputs |-> inp, lo |-> lo]

\* the last loop, which moves lo past the frames of the front part
RECURSIVE SlicePoint(_, _, _, _)
SlicePoint(ctx, split, inp, lo) ==
    IF lo < Len(inp) /\ InFront(ctx, split, At(inp, lo))
    THEN SlicePoint(ctx, split, inp, lo + 1) ELSE lo

\* the arena with the view of nd replaced by inp
WriteInputs(ar, nd, inp) ==
    [i \in 1..Len(ar) |-> IF i > nd.start /\ i <= nd.start + nd.len THEN inp[i - nd.start] ELSE ar[i]]

\* ChildNodes when the lower child is given the parent's misclassified count
ChildNodesParentCount(n, nd, split, slicePoint) ==
    << NewNode(n, nd.start, slicePoint, split.trueBelow, nd.misclassified, nd.originalRoot),
       NewNode(n, nd.start + slicePoint, nd.len - slicePoint, ~split.trueBelow,
               split.missesAbove, nd.originalRoot) >>

\* the two children of presplitOn, lower first
ChildNodes(n, nd, split, slicePoint) ==
    << NewNode(n, nd.start, slicePoint, split.trueBelow, split.missesBelow, nd.originalRoot),
       NewNode(n, nd.start + slicePoint, nd.len - slicePoint, ~split.trueBelow,
               split.missesAbove, nd.originalRoot) >>

\* presplitOn on node n: partitions its inputs in place and records the
\* candidate and its two children on the node
presplitOn(ctx, st, n, split) ==
    LET nd == st.nodes[n]
        k == Len(st.nodes)
        nd2 == [nd EXCEPT !.decideFeature = split.splitFeature,
                          !.decideCutoff = split.splitValue,
                          !.lowerChild = k + 1, !.highEqChild = k + 2]
    IN Bind(PartitionLoop(ctx, split, Inputs(st.arena, nd), 0, nd.len - 1), LAMBDA part :
         LET slicePoint == SlicePoint(ctx, split, part.inputs, part.lo)
         IN [nodes |-> [st.nodes EXCEPT ![n] = nd2] \o ChildNodes(n, nd, split, slicePoint),
             arena |-> WriteInputs(st.arena, nd, part.inputs)])

(* -------------------------- precalcBestSplit -------------------------- *)
\* UpperBar when the bar is the node's own count
UpperBarOwnCount(misclassified) == misclassified

\* int(float64(n.misclassified) * 0.99)
UpperBar(misclassified) == GoDiv(misclassified * 99, 100)

\* the loop over the allowed features, visited in the given order
RECURSIVE BestOver(_, _, _)
BestOver(cands, order, bestSplit) ==
    IF order = <<>> THEN bestSplit
    ELSE LET nextSplit == cands[Head(order)]
         IN Bind(IF nextSplit.misses < bestSplit.misses THEN nextSplit ELSE bestSplit,
                 LAMBDA best : BestOver(cands, Tail(order), best))

\* precalcBestSplit returns instead of panicking
precalcOK(ctx, st, n, features) ==
    \A feature \in features : splitReductionOK(ctx, Inputs(st.arena, st.nodes[n]), feature)

\* the candidate splitReduction returns for every allowed feature
Candidates(ctx, st, n, features) ==
    [feature \in features |-> splitReduction(ctx, st.arena, st.nodes[n], feature)]

\* the split the loop of precalcBestSplit ends with when the map of allowed
\* features is iterated in the given order; splitFeature -1 when none passes
\* the bar
BestSplit(cands, nd, order) ==
    BestOver(cands, order, splitDetails(-1, -1, FALSE, UpperBar(nd.misclassified), -1, -1))

\* the end of precalcBestSplit: split, but only if it improves things
precalcBestSplit(ctx, st, n, bestSplit) ==
    IF bestSplit.splitFeature # -1 THEN presplitOn(ctx, st, n, bestSplit) ELSE st

\* the results of precalcBestSplit over every iteration order of the map
PrecalcOutcomes(ctx, st, n, features) ==
    IF features = {} THEN {st}
    ELSE Bind(Candidates(ctx, st, n, features), LAMBDA cands :
           LET bests == {BestSplit(cands, st.nodes[n], order) : order \in PermsOf(features)}
           IN {precalcBestSplit(ctx, st, n, bestSplit) : bestSplit \in bests})

(* ------------------------ nodeQueue and heap -------------------------- *)
NoError == "none"
ErrIndex == "index out of range"
ErrNil == "nil pointer dereference"
ErrMakeSlice == "makeslice: len out of range"
ErrTreeCount == "Forest currently only supports single tree"
ErrFeature == "TODO - support more features?"

\* the misclassifications splitting the node would fix (iFix, jFix of Less)
Fix(tbl, n) ==
    tbl[n].misclassified -
        (tbl[tbl[n].lowerChild].misclassified + tbl[tbl[n].highEqChild].misclassified)

\* nodeQueue.Less dereferences both nodes and their four candidate children
LessOK(tbl, a, b) ==
    /\ a # Nil /\ b # Nil
    /\ tbl[a].lowerChild # Nil /\ tbl[a].highEqChild # Nil
    /\ tbl[b].lowerChild # Nil /\ tbl[b].highEqChild # Nil

\* QueueLess when the node that fixes less comes first
QueueLessSmallestFirst(tbl, a, b) == Fix(tbl, a) < Fix(tbl, b)

\* nodeQueue.Less on the nodes a and b
QueueLess(tbl, a, b) == Fix(tbl, a) > Fix(tbl, b)

\* heap.up
RECURSIVE HeapUp(_, _, _)
HeapUp(tbl, q, j) ==
    LET i == GoDiv(j - 1, 2)
    IN IF i = j THEN [q |-> q, err |-> NoError]
       ELSE IF ~LessOK(tbl, At(q, j), At(q, i)) THEN [q |-> q, err |-> ErrNil]
       ELSE IF ~QueueLess(tbl, At(q, j), At(q, i)) THEN [q |-> q, err |-> NoError]
       ELSE HeapUp(tbl, SeqSwap(q, i, j), i)

\* heap.down
RECURSIVE HeapDown(_, _, _, _)
HeapDown(tbl, q, i, n) ==
    LET j1 == 2 * i + 1
        j2 == j1 + 1
    IN IF j1 >= n \/ j1 < 0 THEN [q |-> q, err |-> NoError]
       ELSE IF j2 < n /\ ~LessOK(tbl, At(q, j2), At(q, j1)) THEN [q |-> q, err |-> ErrNil]
       ELSE LET j == IF j2 < n /\ QueueLess(tbl, At(q, j2), At(q, j1)) THEN j2 ELSE j1
            IN IF ~LessOK(tbl, At(q, j), At(q, i)) THEN [q |-> q, err |-> ErrNil]
               ELSE IF ~QueueLess(tbl, At(q, j), At(q, i)) THEN [q |-> q, err |-> NoError]
               ELSE HeapDown(tbl, SeqSwap(q, i, j), j, n)

\* heap.Init: down(i, n) for i = n/2 - 1 .. 0
RECURSIVE HeapInitFrom(_, _, _)
HeapInitFrom(tbl, q, i) ==
    IF i < 0 THEN [q |-> q, err |-> NoError]
    ELSE LET r == HeapDown(tbl, q, i, Len(q))
         IN IF r.err # NoError THEN r ELSE HeapInitFrom(tbl, r.q, i - 1)

HeapInit(tbl, q) == HeapInitFrom(tbl, q, GoDiv(Len(q), 2) - 1)

\* HeapPush when the node is appended and sifted up a second time
HeapPushTwice(tbl, q, x) ==
    LET once == HeapUp(tbl, Append(q, x), Len(q))
    IN HeapUp(tbl, Append(once.q, x), Len(once.q))

\* heap.Push: nodeQueue.Push appends, then up(Len - 1)
HeapPush(tbl, q, x) == HeapUp(tbl, Append(q, x), Len(q))

\* HeapPop when nodeQueue.Pop does not shorten the queue
HeapPopKeepsItem(tbl, q) ==
    LET n == Len(q) - 1
        r == HeapDown(tbl, SeqSwap(q, 0, n), 0, n)
    IN [q |-> r.q, item |-> At(r.q, n), err |-> r.err]

\* heap.Pop on a non-empty queue: Swap(0, n), down(0, n), then nodeQueue.Pop
\* takes the last element
HeapPop(tbl, q) ==
    LET n == Len(q) - 1
        r == HeapDown(tbl, SeqSwap(q, 0, n), 0, n)
    IN [q |-> SubSeq(r.q, 1, n), item |-> At(r.q, n), err |-> r.err]

(* -------------------------- convertToBranch --------------------------- *)
\* one of the two "if child.misclassified > 0" blocks of convertToBranch;
\* r carries the node table, the arena, the queue, the panic so far and the
\* nodes precalcBestSplit was called on
ConvertChild(ctx, r, c, features) ==
    IF r.err # NoError THEN {r}
    ELSE IF r.nodes[c].misclassified > 0
    THEN LET st == [nodes |-> r.nodes, arena |-> r.arena]
         IN IF ~precalcOK(ctx, st, c, features)
            THEN {[r EXCEPT !.err = ErrIndex, !.evaluated = Append(@, c)]}
            ELSE {LET pushed == IF out.nodes[c].decideFeature # -1
                                THEN HeapPush(out.nodes, r.q, c)
                                ELSE [q |-> r.q, err |-> NoError]
                  IN [nodes |-> out.nodes, arena |-> out.arena, q |-> pushed.q,
                      err |-> pushed.err, evaluated |-> Append(r.evaluated, c)]
                  : out \in PrecalcOutcomes(ctx, st, c, features)}
    ELSE {r}

\* convertToBranch on node n: every result the iteration orders allow
convertToBranch(ctx, tbl, ar, q, n, features) ==
    LET r0 == [nodes |-> [tbl EXCEPT ![n].isLeaf = FALSE], arena |-> ar, q |-> q,
               err |-> NoError, evaluated |-> <<>>]
        lowerChild == tbl[n].lowerChild
        upperChild == tbl[n].highEqChild
    IN UNION {ConvertChild(ctx, r1, upperChild, features)
              : r1 \in ConvertChild(ctx, r0, lowerChild, features)}

(* ------------------------------ actions ------------------------------- *)
\* no helper call was made
NoCall == [fn |-> "none"]

Init ==
    /\ pc = "new"
    /\ failure = NoError
    /\ frameSize = 0
    /\ treeCount = 0
    /\ minMisclassified = 0
    /\ allowed = <<>>
    /\ roots = <<>>
    /\ leafQueue = <<>>
    /\ trainFrameCount = 0
    /\ trainSamples = <<>>
    /\ trainExpected = <<>>
    /\ nodes = <<>>
    /\ arena = <<>>
    /\ nextLeaf = Nil
    /\ evaluated = EmptyBag
    /\ enqueued = EmptyBag
    /\ call = NoCall
    /\ previous = <<>>

Panic(kind) == pc' = "panicked" /\ failure' = kind

\* the tree count NewForest accepts
SupportedTreeCount(tc) == tc = 1

\* NewForest(frameSize, treeCount, minMisclassified): make([][]int, treeCount)
\* comes first and panics on a negative count, then the check of the tree
\* count, then make([]int, features)
NewForestCall(fs, tc, mm) ==
    /\ pc = "new"
    /\ frameSize' = fs /\ treeCount' = tc /\ minMisclassified' = mm
    /\ LET features == 2 * fs - 1
       IN IF tc < 0
          THEN /\ Panic(ErrMakeSlice)
               /\ UNCHANGED <<allowed, roots, leafQueue, trainFrameCount>>
          ELSE IF ~SupportedTreeCount(tc)
          THEN /\ Panic(ErrTreeCount)
               /\ UNCHANGED <<allowed, roots, leafQueue, trainFrameCount>>
          ELSE IF features < 0
          THEN /\ Panic(ErrMakeSlice)
               /\ UNCHANGED <<allowed, roots, leafQueue, trainFrameCount>>
          ELSE /\ pc' = "ready"
               /\ failure' = NoError
               /\ allowed' = [i \in 1..features |-> i - 1]
               /\ leafQueue' = [i \in 1..tc |-> Nil]
               /\ roots' = [i \in 1..tc |-> Nil]
               /\ trainFrameCount' = -1
    /\ UNCHANGED <<trainSamples, trainExpected, nodes, arena, nextLeaf,
                   evaluated, enqueued, call, previous>>

NewForest ==
    /\ pc = "new"
    /\ \E fs \in 0..MaxFrameSize, tc \in (-1)..MaxTreeCount, mm \in 0..MaxMinMis :
          NewForestCall(fs, tc, mm)

\* number of frames whose label is 1, counted as Train's first loop does
RECURSIVE TrueCount(_, _, _)
TrueCount(ctx, i, frameCount) ==
    IF i >= frameCount THEN 0
    ELSE (IF FrameLabel(ctx, i) = 1 THEN 1 ELSE 0) + TrueCount(ctx, i + 1, frameCount)

\* RootNode when a tie between the labels classifies as true
RootNodeTieTrue(frameCount, trueCount) ==
    LET moreTrue == trueCount >= (frameCount - trueCount)
        misclassified == IF moreTrue THEN frameCount - trueCount ELSE trueCount
    IN NewNode(Nil, 0, frameCount, moreTrue, misclassified, 0)

\* the root node Train creates
RootNode(frameCount, trueCount) ==
    LET moreTrue == trueCount > (frameCount - trueCount)
        misclassified == IF moreTrue THEN frameCount - trueCount ELSE trueCount
    IN NewNode(Nil, 0, frameCount, moreTrue, misclassified, 0)

\* Forest.Train(samples, expected) up to and including heap.Init.  The root is
\* a new node with a new inputs array: it is added behind the nodes and the
\* arrays the Forest's queue may still refer to from an earlier call
TrainCall(samples, expected) ==
    /\ pc \in {"ready", "done"}
    /\ trainSamples' = samples
    /\ trainExpected' = expected
    /\ trainFrameCount' = Len(samples) - frameSize + 1
    /\ nextLeaf' = Nil
    /\ \E ctx \in {Ctx(frameSize, samples, expected)},
          frameCount \in {Len(samples) - frameSize + 1},
          features \in {{allowed[i] : i \in 1..Len(allowed)}},
          root \in {Len(nodes) + 1} :
          IF \E i \in 0..(frameCount - 1) : ~LabelOK(ctx, i)
          THEN /\ Panic(ErrIndex) /\ UNCHANGED <<roots, leafQueue, nodes, arena>>
               /\ evaluated' = EmptyBag /\ enqueued' = EmptyBag
          ELSE IF frameCount < 0
          THEN /\ Panic(ErrMakeSlice) /\ UNCHANGED <<roots, leafQueue, nodes, arena>>
               /\ evaluated' = EmptyBag /\ enqueued' = EmptyBag
          ELSE IF ~InRange(roots, 0)
          THEN /\ Panic(ErrIndex) /\ UNCHANGED <<roots, leafQueue, nodes, arena>>
               /\ evaluated' = EmptyBag /\ enqueued' = EmptyBag
          ELSE \E st0 \in {[nodes |-> Append(nodes,
                                    [RootNode(frameCount, TrueCount(ctx, 0, frameCount))
                                       EXCEPT !.start = Len(arena)]),
                             arena |-> arena \o [j \in 1..frameCount |-> j - 1]]} :
                  IF ~InRange(leafQueue, 0)
                  THEN /\ Panic(ErrIndex)
                       /\ roots' = [roots EXCEPT ![1] = root]
                       /\ nodes' = st0.nodes /\ arena' = st0.arena
                       /\ evaluated' = EmptyBag /\ enqueued' = EmptyBag
                       /\ UNCHANGED leafQueue
                  ELSE IF ~precalcOK(ctx, st0, root, features)
                  THEN /\ Panic(ErrIndex)
                       /\ roots' = [roots EXCEPT ![1] = root]
                       /\ leafQueue' = [leafQueue EXCEPT ![1] = root]
                       /\ nodes' = st0.nodes /\ arena' = st0.arena
                       /\ evaluated' = SetToBag({root}) /\ enqueued' = SetToBag({root})
                  ELSE \E st \in PrecalcOutcomes(ctx, st0, root, features) :
                         \E h \in {HeapInit(st.nodes, [leafQueue EXCEPT ![1] = root])} :
                            /\ roots' = [roots EXCEPT ![1] = root]
                            /\ nodes' = st.nodes /\ arena' = st.arena
                            /\ leafQueue' = h.q
                            /\ evaluated' = SetToBag({root}) /\ enqueued' = SetToBag({root})
                            /\ IF h.err # NoError THEN Panic(h.err)
                               ELSE pc' = "training" /\ failure' = NoError
    /\ UNCHANGED <<frameSize, treeCount, minMisclassified, allowed, call>>

\* the inputs of TestSplit
TestSplitSamples == <<10, 15, 11, 12, 8, 3, 7>>
TestSplitLabels == <<0, 1, 0, 1, 0, 0, 1>>

\* a longer series, on which the growth loop has several leaves to choose from
DeepSamples == <<1, 2, 2, 0, 1, 2, 1, 1, 1, 2, 2, 2>>
DeepLabels == <<1, 1, 1, 0, 0, 1, 0, 0, 1, 1, 0, 0>>

\* the inputs Train is called with: every short sequence of small samples with
\* as many labels, the inputs of TestSplit, a longer series, and shorter
\* sequences of samples with fewer or more labels than samples
SampleSeqs == SeqsUpTo(0..MaxVal, MaxLen)
LabelSeqs(n) == SeqsOfLen({0, 1}, n)
MismatchedLabelSeqs(n) == {e \in SeqsUpTo({0, 1}, MaxMismatchLen + 1) : Len(e) # n}
Train ==
    /\ pc = "ready"
    /\ \/ \E samples \in SampleSeqs : \E expected \in LabelSeqs(Len(samples)) :
             TrainCall(samples, expected)
       \/ TrainCall(TestSplitSamples, TestSplitLabels)
       \/ TrainCall(DeepSamples, DeepLabels)
       \/ \E samples \in SeqsUpTo(0..MaxVal, MaxMismatchLen) :
             \E expected \in MismatchedLabelSeqs(Len(samples)) :
               TrainCall(samples, expected)
    /\ UNCHANGED previous

\* BelowMinimum when the loop goes on at one below the minimum
BelowMinimumLessOne(tbl, n, min) == tbl[n].misclassified < min - 1

\* the second break of the growth loop: nextLeaf.misclassified < f.minMisclassified
BelowMinimum(tbl, n, min) == tbl[n].misclassified < min

\* one iteration of Train's growth loop
GrowStep ==
    /\ pc = "training"
    /\ Len(leafQueue) > 0
    /\ Len(nodes) - (roots[1] - 1) < MaxNodes
    /\ \A n \in 1..Len(nodes) :
         CopiesIn(n, evaluated) < MaxHistory /\ CopiesIn(n, enqueued) < MaxHistory
    /\ \E ctx \in {Ctx(frameSize, trainSamples, trainExpected)},
          features \in {{allowed[i] : i \in 1..Len(allowed)}},
          popped \in {HeapPop(nodes, leafQueue)} :
          /\ nextLeaf' = popped.item
          /\ IF popped.err # NoError
             THEN /\ Panic(popped.err) /\ leafQueue' = popped.q
                  /\ UNCHANGED <<nodes, arena, evaluated, enqueued>>
             ELSE IF popped.item = Nil
             THEN /\ Panic(ErrNil) /\ leafQueue' = popped.q
                  /\ UNCHANGED <<nodes, arena, evaluated, enqueued>>
             ELSE IF nodes[popped.item].decideFeature = -1
             THEN /\ pc' = "done" /\ failure' = NoError
                  /\ leafQueue' = popped.q /\ UNCHANGED <<nodes, arena, evaluated, enqueued>>
             ELSE IF BelowMinimum(nodes, popped.item, minMisclassified)
             THEN /\ pc' = "done" /\ failure' = NoError
                  /\ leafQueue' = popped.q /\ UNCHANGED <<nodes, arena, evaluated, enqueued>>
             ELSE \E r \in convertToBranch(ctx, nodes, arena, popped.q, popped.item, features) :
                    /\ nodes' = r.nodes /\ arena' = r.arena /\ leafQueue' = r.q
                    /\ evaluated' = evaluated (+) BagOfSeq(r.evaluated)
                    /\ enqueued' = enqueued (+) (BagOfSeq(r.q) (-) BagOfSeq(popped.q))
                    /\ IF r.err # NoError THEN Panic(r.err)
                       ELSE pc' = "training" /\ failure' = NoError
    /\ UNCHANGED <<frameSize, treeCount, minMisclassified, allowed, roots,
                   trainFrameCount, trainSamples, trainExpected, call, previous>>

\* the growth loop ends on an empty queue and Train returns
TrainReturn ==
    /\ pc = "training"
    /\ Len(leafQueue) = 0
    /\ pc' = "done"
    /\ UNCHANGED <<failure, frameSize, treeCount, minMisclassified, allowed, roots, leafQueue,
                   trainFrameCount, trainSamples, trainExpected, nodes, arena, nextLeaf,
                   evaluated, enqueued, call, previous>>

Next == NewForest \/ Train \/ GrowStep \/ TrainReturn

Spec == Init /\ [][Next]_vars

\* Train is sequential code: a loop iteration that can run does run, and the
\* loop is left once its condition fails
FairSpec == Spec /\ WF_vars(GrowStep) /\ WF_vars(TrainReturn)

(* ------------------- scoreForFrameAndFeature on its own --------------- *)
\* a Forest in the middle of training: the fields the feature extractor reads
ScoreInit ==
    /\ pc = "scoring"
    /\ failure = NoError
    /\ frameSize \in 1..MaxScoreFrameSize
    /\ trainSamples \in SeqsUpTo(0..MaxScoreVal, MaxScoreLen)
    /\ trainFrameCount = Len(trainSamples) - frameSize + 1
    /\ trainExpected = <<>>
    /\ treeCount = 1
    /\ minMisclassified = 0
    /\ allowed = [i \in 1..(2 * frameSize - 1) |-> i - 1]
    /\ roots = <<Nil>>
    /\ leafQueue = <<Nil>>
    /\ nodes = <<>>
    /\ arena = <<>>
    /\ nextLeaf = Nil
    /\ evaluated = EmptyBag
    /\ enqueued = EmptyBag
    /\ call = NoCall
    /\ previous = <<>>

\* one call scoreForFrameAndFeature(f, frame, feature)
ScoreCall ==
    /\ pc = "scoring"
    /\ \E frame \in 0..(MaxScoreLen - 1), feature \in (-1)..(2 * MaxScoreFrameSize) :
         \E ctx \in {Ctx(frameSize, trainSamples, trainExpected)} :
           \E err \in {ScoreErr(ctx, frame, feature)} :
             call' = [fn |-> "scoreForFrameAndFeature", frame |-> frame, feature |-> feature,
                      err |-> err,
                      score |-> IF err = NoError
                                THEN scoreForFrameAndFeature(ctx, frame, feature) ELSE 0]
    /\ UNCHANGED <<pc, failure, frameSize, treeCount, minMisclassified, allowed, roots,
                   leafQueue, trainFrameCount, trainSamples, trainExpected, nodes, arena,
                   nextLeaf, evaluated, enqueued, previous>>

ScoreNext == ScoreCall

ScoreSpec == ScoreInit /\ [][ScoreNext]_vars

(* ------------------------ splitReduction on its own ------------------- *)
\* a Forest whose Train call has just created the root, with its accurate
\* counts, over every short series with as many labels as samples
SplitInit ==
    /\ pc = "splitting"
    /\ failure = NoError
    /\ frameSize \in 1..MaxFrameSize
    /\ trainSamples \in SeqsUpTo(0..MaxSplitVal, MaxSplitLen)
    /\ Len(trainSamples) >= frameSize
    /\ trainExpected \in SeqsOfLen({0, 1}, Len(trainSamples))
    /\ trainFrameCount = Len(trainSamples) - frameSize + 1
    /\ treeCount = 1
    /\ minMisclassified = 0
    /\ allowed = [i \in 1..(2 * frameSize - 1) |-> i - 1]
    /\ roots = <<1>>
    /\ leafQueue = <<1>>
    /\ nodes = <<RootNode(trainFrameCount,
                          TrueCount(Ctx(frameSize, trainSamples, trainExpected), 0,
                                    trainFrameCount))>>
    /\ arena = [j \in 1..trainFrameCount |-> j - 1]
    /\ nextLeaf = Nil
    /\ evaluated = EmptyBag
    /\ enqueued = SetToBag({1})
    /\ call = NoCall
    /\ previous = <<>>

\* one call n.splitReduction(f, feature) on the root, for an allowed feature
SplitReductionCall ==
    /\ pc = "splitting"
    /\ \E i \in 1..Len(allowed) :
         call' = [fn |-> "splitReduction", node |-> 1, feature |-> allowed[i],
                  split |-> splitReduction(Ctx(frameSize, trainSamples, trainExpected),
                                           arena, nodes[1], allowed[i])]
    /\ UNCHANGED <<pc, failure, frameSize, treeCount, minMisclassified, allowed, roots,
                   leafQueue, trainFrameCount, trainSamples, trainExpected, nodes, arena,
                   nextLeaf, evaluated, enqueued, previous>>

SplitNext == SplitReductionCall

SplitSpec == SplitInit /\ [][SplitNext]_vars

(* --------------------------- introspection ---------------------------- *)
\* subtreeSize when it descends into every node that has children recorded
RECURSIVE subtreeSizeAllChildren(_, _)
subtreeSizeAllChildren(tbl, n) ==
    1 + (IF tbl[n].lowerChild # Nil
         THEN subtreeSizeAllChildren(tbl, tbl[n].lowerChild)
              + subtreeSizeAllChildren(tbl, tbl[n].highEqChild)
         ELSE 0)

\* node.subtreeSize
RECURSIVE subtreeSize(_, _)
subtreeSize(tbl, n) ==
    1 + (IF ~tbl[n].isLeaf
         THEN subtreeSize(tbl, tbl[n].lowerChild) + subtreeSize(tbl, tbl[n].highEqChild)
         ELSE 0)

\* totalErrors when a branch adds its own count to its children's
RECURSIVE totalErrorsWithBranches(_, _)
totalErrorsWithBranches(tbl, n) ==
    IF tbl[n].isLeaf THEN tbl[n].misclassified
    ELSE tbl[n].misclassified + totalErrorsWithBranches(tbl, tbl[n].lowerChild)
         + totalErrorsWithBranches(tbl, tbl[n].highEqChild)

\* node.totalErrors
RECURSIVE totalErrors(_, _)
totalErrors(tbl, n) ==
    IF tbl[n].isLeaf THEN tbl[n].misclassified
    ELSE totalErrors(tbl, tbl[n].lowerChild) + totalErrors(tbl, tbl[n].highEqChild)

RECURSIVE SumOver(_, _, _)
SumOver(Op(_, _), tbl, rs) ==
    IF rs = <<>> THEN 0 ELSE Op(tbl, Head(rs)) + SumOver(Op, tbl, Tail(rs))

\* Forest.DecisionNodes
DecisionNodes == SumOver(subtreeSize, nodes, roots)

\* Forest.AverageErrors: float64(errors) / float64(len(f.roots)), which is exact
\* for the one root a Forest has
AverageErrors == SumOver(totalErrors, nodes, roots) \div Len(roots)

(* ------------------------ Train called once more --------------------- *)
\* Forest.Train called again on the Forest a Train call has returned from, with
\* the samples and labels of that call; what the earlier call left is noted
TrainAgain ==
    /\ pc = "done"
    /\ Len(previous) < MaxTrainCalls - 1
    /\ previous' = Append(previous, [decisionNodes |-> DecisionNodes,
                                     averageErrors |-> AverageErrors,
                                     nodes |-> Len(nodes)])
    /\ TrainCall(trainSamples, trainExpected)

RetrainNext == NewForest \/ Train \/ GrowStep \/ TrainReturn \/ TrainAgain

RetrainSpec == Init /\ [][RetrainNext]_vars

(* ------------------------- vocabulary of the claims ------------------- *)
TrainCtx == Ctx(frameSize, trainSamples, trainExpected)

\* Train has built a tree (it is growing it or has returned)
HasTree == pc \in {"training", "done"}

NodeIds == 1..Len(nodes)

NodeInputs(n) == Inputs(arena, nodes[n])

\* a candidate split, and with it two children, is recorded on the node
HasChildren(n) == nodes[n].lowerChild # Nil /\ nodes[n].highEqChild # Nil

\* frames of a node whose label disagrees with the node's classification
ActualMisclassified(n) ==
    Cardinality({i \in 1..nodes[n].len :
                    (FrameLabel(TrainCtx, NodeInputs(n)[i]) = 1) # nodes[n].classifyAsTrue})

\* Train was called with inputs the trainer accepts
ValidInput ==
    /\ treeCount = 1
    /\ minMisclassified >= 0
    /\ trainFrameCount # -1
    /\ Len(trainSamples) = Len(trainExpected)
    /\ frameSize >= 1
    /\ frameSize <= Len(trainSamples)
    /\ \A i \in 1..Len(trainExpected) : trainExpected[i] \in {0, 1}

\* the leaves of the tree under node n, as DecisionNodes and AverageErrors
\* walk it
RECURSIVE LeavesUnder(_)
LeavesUnder(n) ==
    IF nodes[n].isLeaf THEN {n}
    ELSE LeavesUnder(nodes[n].lowerChild) \cup LeavesUnder(nodes[n].highEqChild)

FrameSet(n) == {NodeInputs(n)[i] : i \in 1..nodes[n].len}

(* ------------------------------- claims ------------------------------- *)

\* C1: every node's stored misclassified count equals the number of frames in
\* its own inputs whose label disagrees with the node's classifyAsTrue.
\* The code breaks this: TLC reaches a tree with a node whose stored count
\* differs from the count over its inputs.
C1_StoredCountIsActualCount ==
    HasTree => \A n \in NodeIds : nodes[n].misclassified = ActualMisclassified(n)

\* C3: after a split every frame of lowerChild scores below decideCutoff on
\* decideFeature and every frame of highEqChild scores at or above it, for
\* either value of trueBelow.  The code breaks this when trueBelow is false.
C3_ChildrenSidesOfCutoff ==
    HasTree =>
      \A n \in NodeIds : HasChildren(n) =>
        /\ \A i \in 1..nodes[nodes[n].lowerChild].len :
              scoreForFrameAndFeature(TrainCtx, NodeInputs(nodes[n].lowerChild)[i],
                                      nodes[n].decideFeature) < nodes[n].decideCutoff
        /\ \A i \in 1..nodes[nodes[n].highEqChild].len :
              scoreForFrameAndFeature(TrainCtx, NodeInputs(nodes[n].highEqChild)[i],
                                      nodes[n].decideFeature) >= nodes[n].decideCutoff

\* the bag of the frames in the inputs of the leaves under the root
RECURSIVE LeafFrames(_)
LeafFrames(n) ==
    IF nodes[n].isLeaf THEN BagOfSeq(NodeInputs(n))
    ELSE LeafFrames(nodes[n].lowerChild) (+) LeafFrames(nodes[n].highEqChild)

\* the leaves under the root hold every frame 0..frameCount-1 exactly once
LeavesPartitionFrames ==
    HasTree => LeafFrames(roots[1]) = SetToBag(0..(trainFrameCount - 1))

\* the inputs of node n before the step: its view, or for the root created in
\* the step the frames 0..frameCount-1 it was filled with
InputsBefore(n) ==
    IF pc = "training" THEN BagOfSeq(NodeInputs(n)) ELSE SetToBag(0..(trainFrameCount' - 1))

\* C2: for every split, the multiset union of lowerChild.inputs and
\* highEqChild.inputs equals the parent's inputs before the split, and the
\* inputs of the leaves under the root are pairwise disjoint with union
\* 0..frameCount-1.
C2_Step ==
    HasTree' =>
      /\ \A n \in 1..Len(nodes') :
           (nodes'[n].lowerChild # Nil /\ (pc = "training" => n <= Len(nodes))) =>
             BagOfSeq(Inputs(arena', nodes'[nodes'[n].lowerChild]))
               (+) BagOfSeq(Inputs(arena', nodes'[nodes'[n].highEqChild])) = InputsBefore(n)
      /\ LeavesPartitionFrames'

\* C2: every step of the program keeps the split inputs a partition: a
\* node's children hold exactly the frames the node held, and the leaves
\* under the root hold every frame exactly once.
C2_SplitsPartitionInputs == [][C2_Step]_vars

\* witness of C2: a split that exchanged frames and left both children non-empty
C2_Witness ==
    /\ HasTree
    /\ \E n \in NodeIds :
         /\ HasChildren(n)
         /\ nodes[nodes[n].lowerChild].len > 0
         /\ nodes[nodes[n].highEqChild].len > 0
         /\ \E i \in 1..(nodes[n].len - 1) : NodeInputs(n)[i] > NodeInputs(n)[i + 1]

\* C4: on valid input (equal lengths, 1 <= frameSize <= len(samples), labels
\* 0/1, one tree, minMisclassified >= 0) Train never panics.
C4_ValidInputNeverPanics == ValidInput => pc # "panicked"

\* witness of C4: Train returned on the inputs of TestSplit, with a split root
C4_Witness ==
    /\ pc = "done"
    /\ ValidInput
    /\ trainSamples = TestSplitSamples /\ trainExpected = TestSplitLabels /\ frameSize = 2
    /\ ~nodes[roots[1]].isLeaf

\* the growth loop was left for one of its three reasons
StopReason ==
    \/ Len(leafQueue) = 0
    \/ /\ nextLeaf # Nil
       /\ \/ nodes[nextLeaf].decideFeature = -1
          \/ nodes[nextLeaf].misclassified < minMisclassified

Branches == {n \in NodeIds : ~nodes[n].isLeaf}

\* C5: on valid input the growth loop eventually stops, by an empty queue or
\* by popping a leaf without candidate or below minMisclassified.
C5_GrowthLoopStops == (pc = "training" /\ ValidInput) ~> (pc = "done" /\ StopReason)

\* witness of C5: Train returned after the loop converted two nodes
C5_Witness == pc = "done" /\ ValidInput /\ Cardinality(Branches) >= 2

\* C6: the stored counts of the two children of a split node sum to at most
\* the node's own stored count.
C6_ChildrenSumAtMostParent ==
    HasTree =>
      \A n \in NodeIds : HasChildren(n) =>
        nodes[nodes[n].lowerChild].misclassified + nodes[nodes[n].highEqChild].misclassified
          <= nodes[n].misclassified

\* witness of C6: a converted node whose upper child keeps a positive count
C6_Witness ==
    /\ HasTree
    /\ \E n \in Branches : nodes[nodes[n].highEqChild].misclassified > 0

\* frames labelled 1 among 0..frameCount-1
TrueFrames == {i \in 0..(trainFrameCount - 1) : FrameLabel(TrainCtx, i) = 1}

\* misclassified count of the majority classification of all frames
MajorityMisclassified ==
    LET t == Cardinality(TrueFrames)
    IN IF t > trainFrameCount - t THEN trainFrameCount - t ELSE t

\* C7: after Train returns, AverageErrors() is at most the majority-class
\* misclassified count of the root.
C7_AverageErrorsAtMostRoot == pc = "done" => AverageErrors <= MajorityMisclassified

\* witness of C7: Train returned with a split root and a positive error left
C7_Witness ==
    /\ pc = "done"
    /\ ~nodes[roots[1]].isLeaf
    /\ AverageErrors > 0
    /\ AverageErrors < MajorityMisclassified

\* C8: after Train returns every node with isLeaf = false has two children and
\* DecisionNodes() = 2*B+1 for the B nodes with isLeaf = false, hence odd; a
\* leaf that was pre-split but never popped counts as one node.
C8_DecisionNodesOdd ==
    pc = "done" =>
      /\ \A n \in Branches : HasChildren(n)
      /\ DecisionNodes = 2 * Cardinality(Branches) + 1
      /\ DecisionNodes % 2 = 1
      /\ DecisionNodes =
           Len(nodes) - 2 * Cardinality({n \in NodeIds : nodes[n].isLeaf /\ HasChildren(n)})

\* witness of C8: Train returned with a branch and a pre-split leaf
C8_Witness ==
    /\ pc = "done"
    /\ Branches # {}
    /\ \E n \in NodeIds : nodes[n].isLeaf /\ HasChildren(n)

\* C9: a tree count other than 1 is rejected by NewForest with the
\* single-tree panic, and no Forest with such a count exists to be trained.
\* The code breaks this for a negative count, which panics in make() before
\* the tree count is looked at.
C9_TreeCountRejected ==
    (pc # "new" /\ treeCount # 1) =>
      /\ pc = "panicked"
      /\ failure = ErrTreeCount
      /\ nodes = <<>>
      /\ trainSamples = <<>>

\* C10: whenever frameSize > len(samples), Train panics instead of returning
\* with a tree.  The code breaks this for frameSize = len(samples) + 1.
C10_OversizedFramePanics ==
    (trainFrameCount # -1 /\ pc \in {"training", "done", "panicked"}
       /\ treeCount = 1 /\ frameSize >= 1 /\ frameSize > Len(trainSamples))
      => pc = "panicked"

\* C11: whenever len(samples) # len(labels), Train panics instead of returning
\* with a tree; stated for the calls that have at least one frame.  The code
\* breaks this when there are more labels than samples.
C11_LengthMismatchPanics ==
    (HasTree /\ treeCount = 1 /\ frameSize >= 1 /\ frameSize <= Len(trainSamples))
      => Len(trainSamples) = Len(trainExpected)

\* frames 0..len(samples)-frameSize whose label labels[i+frameSize-1] is 1
\* (the sequences of the model are 1-based)
EndAlignedTrue ==
    {i \in 0..(Len(trainSamples) - frameSize) : trainExpected[i + frameSize] = 1}

\* C12: on valid input frameCount = len(samples) - frameSize + 1, the root
\* holds the frames 0..frameCount-1, it classifies as true iff the frames
\* labelled true (by labels[i+frameSize-1]) strictly outnumber the others, and
\* its misclassified count is the smaller of the two numbers.
C12_RootInitialised ==
    (HasTree /\ ValidInput) =>
      LET frameCount == Len(trainSamples) - frameSize + 1
          trues == Cardinality(EndAlignedTrue)
          falses == frameCount - trues
          root == nodes[roots[1]]
      IN /\ trainFrameCount = frameCount
         /\ root.parent = Nil
         /\ root.start = 0 /\ root.len = frameCount
         /\ FrameSet(roots[1]) = 0..(frameCount - 1)
         /\ root.classifyAsTrue = (trues > falses)
         /\ root.misclassified = (IF trues < falses THEN trues ELSE falses)

\* witness of C12: a root over a tie of two true and two false frames whose
\* labels are read one past the frame index (frameSize 2)
C12_Witness ==
    /\ HasTree /\ ValidInput
    /\ frameSize = 2
    /\ trainFrameCount = 4
    /\ Cardinality(EndAlignedTrue) = 2
    /\ trainExpected[1] = 1
    /\ ~nodes[roots[1]].classifyAsTrue

\* C13: scoreForFrameAndFeature(frame, feature) gives samples[frame+feature]
\* for 0 <= feature < frameSize, samples[frame+j+1] - samples[frame+j] with
\* j = feature - frameSize for frameSize <= feature < 2*frameSize-1, and the
\* unsupported-feature panic for every other feature index.  The code breaks
\* this for a negative feature index.  (Sequences of the model are 1-based.)
C13_ScoreContract ==
    call.fn = "scoreForFrameAndFeature" =>
      LET frame == call.frame
          feature == call.feature
          j == feature - frameSize
      IN IF 0 <= feature /\ feature < frameSize
         THEN frame + feature < Len(trainSamples) =>
                call.err = NoError /\ call.score = trainSamples[frame + feature + 1]
         ELSE IF frameSize <= feature /\ feature < 2 * frameSize - 1
         THEN frame + j + 1 < Len(trainSamples) =>
                /\ call.err = NoError
                /\ call.score = trainSamples[frame + j + 2] - trainSamples[frame + j + 1]
         ELSE call.err = ErrFeature

\* C14: in every node the frame indexes of inputs appear in strictly ascending
\* order, after any sequence of splits.  The code breaks this: presplitOn
\* partitions by exchanging frames.
C14_InputsAscending ==
    HasTree =>
      \A n \in NodeIds : \A i \in 1..(nodes[n].len - 1) :
        NodeInputs(n)[i] < NodeInputs(n)[i + 1]

\* frames of a node labelled true
TrueIn(n) == Cardinality({i \in 1..nodes[n].len : FrameLabel(TrainCtx, NodeInputs(n)[i]) = 1})

\* C15: every node's classifyAsTrue is the majority label of the frames in its
\* own inputs, and its stored misclassified count is at most half the length of
\* its inputs, for the root and for the children of a split.  The code breaks
\* this for children of a split on a score several frames share.
C15_ClassifiedByMajority ==
    (HasTree /\ ValidInput) =>
      \A n \in NodeIds :
        /\ nodes[n].classifyAsTrue => 2 * TrueIn(n) >= nodes[n].len
        /\ ~nodes[n].classifyAsTrue => 2 * TrueIn(n) <= nodes[n].len
        /\ 2 * nodes[n].misclassified <= nodes[n].len

\* floor(0.99 * m)
Floor99(m) == (99 * m) \div 100

\* precalcBestSplit was called on the node
Evaluated(n) == BagIn(n, evaluated)

ChildSum(n) ==
    nodes[nodes[n].lowerChild].misclassified + nodes[nodes[n].highEqChild].misclassified

\* a node carries a candidate exactly when it has its two children, and then
\* the candidate's misses are below the bar; a node without one is a leaf
CandidateBeatsBar ==
    HasTree =>
      \A n \in NodeIds :
        /\ (nodes[n].decideFeature # -1) <=> HasChildren(n)
        /\ (nodes[n].lowerChild # Nil) <=> (nodes[n].highEqChild # Nil)
        /\ HasChildren(n) => Evaluated(n) /\ ChildSum(n) < Floor99(nodes[n].misclassified)
        /\ nodes[n].decideFeature = -1 => nodes[n].isLeaf

\* an evaluated node without candidate is left as it is
RejectedStaysLeaf ==
    \A n \in NodeIds :
      (pc = "training" /\ Evaluated(n) /\ nodes[n].decideFeature = -1)
        => (n <= Len(nodes') /\ nodes'[n] = nodes[n])

\* C16: precalcBestSplit records a candidate on a node (decideFeature # -1 and
\* two children) only if its misses are strictly below floor(0.99 *
\* misclassified); otherwise the node keeps decideFeature = -1, has no
\* children and stays a leaf for the rest of training.
C16_CandidateOnlyBelowBar == [](CandidateBeatsBar) /\ [][RejectedStaysLeaf]_vars

\* witness of C16: Train returned with a converted root, a child that carries a
\* candidate and an evaluated child with misclassified frames and no candidate
C16_Witness ==
    /\ pc = "done"
    /\ ~nodes[roots[1]].isLeaf
    /\ \E n \in NodeIds : n # roots[1] /\ HasChildren(n)
    /\ \E n \in NodeIds :
         n # roots[1] /\ Evaluated(n) /\ nodes[n].decideFeature = -1 /\ nodes[n].misclassified > 0

QueueSet == {leafQueue[i] : i \in 1..Len(leafQueue)}

\* a pop from a queue of several leaves takes one that fixes at least as many
\* misclassifications as every leaf it leaves behind
PopsBestLeaf ==
    (pc = "training" /\ Len(leafQueue) >= 2 /\ pc' # "panicked") =>
      /\ nextLeaf' \in QueueSet
      /\ \A m \in QueueSet \ {nextLeaf'} : Fix(nodes, nextLeaf') >= Fix(nodes, m)

\* C17: whenever Train pops a leaf, its reduction potential (misclassified
\* minus the counts of its two candidate children) is at least that of every
\* other leaf still in the queue, whichever subtree they are in.
C17_PopsLargestReduction == [][PopsBestLeaf]_vars

\* witness of C17: the leaf popped last was preferred to a queued leaf of
\* another subtree (neither its child nor its sibling) that fixes less
C17_Witness ==
    /\ HasTree
    /\ nextLeaf # Nil
    /\ HasChildren(nextLeaf)
    /\ \E m \in QueueSet :
         /\ nodes[m].parent # nextLeaf
         /\ nodes[m].parent # nodes[nextLeaf].parent
         /\ Fix(nodes, nextLeaf) > Fix(nodes, m)

\* a pop of a leaf below minMisclassified ends the loop with the tree as it is
StopsBelowMinimum ==
    (/\ pc = "training" /\ Len(leafQueue) >= 1 /\ pc' # "panicked"
     /\ nextLeaf' # Nil
     /\ nodes[nextLeaf'].misclassified < minMisclassified)
      => (pc' = "done" /\ nodes' = nodes /\ arena' = arena)

\* C18: the first pop of a leaf whose misclassified count is below
\* minMisclassified stops growth for the whole tree: Train returns and no node
\* is converted, even when queued leaves have a candidate and a count of at
\* least minMisclassified.
C18_BelowMinimumStopsAll == [][StopsBelowMinimum]_vars

\* witness of C18: Train returned on a popped leaf that has a candidate and is
\* below minMisclassified, leaving a leaf with a candidate and a count of at
\* least minMisclassified in the queue
C18_Witness ==
    /\ pc = "done"
    /\ nextLeaf # Nil
    /\ nodes[nextLeaf].decideFeature # -1
    /\ nodes[nextLeaf].isLeaf
    /\ nodes[nextLeaf].misclassified < minMisclassified
    /\ \E m \in QueueSet : HasChildren(m) /\ nodes[m].misclassified >= minMisclassified

\* no node was evaluated twice or put on the queue twice, the queue holds no
\* node twice, and an evaluated node without candidate is on the queue only if
\* it is the root, which Train puts there before evaluating it
EachNodeOnce ==
    (pc \in {"training", "done"}) =>
      /\ \A n \in NodeIds :
           /\ CopiesIn(n, evaluated) <= 1
           /\ CopiesIn(n, enqueued) <= 1
           /\ (Evaluated(n) /\ nodes[n].decideFeature = -1 /\ n # roots[1])
                => (CopiesIn(n, enqueued) = 0 /\ n \notin QueueSet)
           /\ ~nodes[n].isLeaf => (Evaluated(n) /\ CopiesIn(n, enqueued) = 1 /\ n \notin QueueSet)
      /\ Cardinality(QueueSet) = Len(leafQueue)
      /\ QueueSet \subseteq NodeIds

\* within a Train call a branch stays a branch, only the popped leaf becomes
\* one, and the histories only grow
BranchesStay ==
    (pc = "training") =>
      /\ \A n \in NodeIds :
           /\ n <= Len(nodes')
           /\ ~nodes[n].isLeaf => ~nodes'[n].isLeaf
           /\ (nodes[n].isLeaf /\ ~nodes'[n].isLeaf) => n = nextLeaf'
           /\ CopiesIn(n, evaluated') >= CopiesIn(n, evaluated)
           /\ CopiesIn(n, enqueued') >= CopiesIn(n, enqueued)
           /\ (Evaluated(n) /\ nodes[n].decideFeature = -1)
                => CopiesIn(n, evaluated') = 1 /\ CopiesIn(n, enqueued') = CopiesIn(n, enqueued)

\* C19: within one Train call every node is evaluated by precalcBestSplit at
\* most once, put on the growth queue at most once, and changes from leaf to
\* branch at most once and never back; a leaf whose evaluation found no
\* candidate is never evaluated or enqueued again.
C19_EachNodeHandledOnce == [](EachNodeOnce) /\ [][BranchesStay]_vars

\* witness of C19: Train returned after converting two nodes, one of them a
\* pushed child, and with an evaluated child that was never put on the queue
C19_Witness ==
    /\ pc = "done"
    /\ Cardinality(Branches) >= 2
    /\ \E n \in NodeIds : n # roots[1] /\ CopiesIn(n, enqueued) = 1 /\ ~nodes[n].isLeaf
    /\ \E n \in NodeIds :
         Evaluated(n) /\ nodes[n].decideFeature = -1 /\ CopiesIn(n, enqueued) = 0

\* frames of node n on one side of a candidate whose label is not the label
\* given to that side
SideMisses(n, split, below, sideLabel) ==
    Cardinality({f \in FrameSet(n) :
        /\ (scoreForFrameAndFeature(TrainCtx, f, split.splitFeature) < split.splitValue) = below
        /\ (FrameLabel(TrainCtx, f) = 1) # sideLabel})

\* C20: for every candidate splitReduction returns on a node with accurate
\* counts, missesBelow is the number of frames scoring below splitValue whose
\* label differs from the below side's label (true iff trueBelow),
\* missesAbove the number of frames scoring at or above it whose label differs
\* from the opposite label, and misses is their sum; also when frames share a
\* score.  The code breaks this when the split value is shared by frames.
C20_CandidateCountsExact ==
    (call.fn = "splitReduction" /\ call.split.splitFeature # -1) =>
      /\ call.split.missesBelow = SideMisses(call.node, call.split, TRUE, call.split.trueBelow)
      /\ call.split.missesAbove = SideMisses(call.node, call.split, FALSE, ~call.split.trueBelow)
      /\ call.split.misses = call.split.missesBelow + call.split.missesAbove

\* C21: a second Train call on the same Forest with the same valid samples and
\* labels does not panic and leaves the same DecisionNodes() and
\* AverageErrors() as the first, and no node of the first call is in the queue
\* of the second.  The code breaks this: the queue the first call leaves behind
\* is what the second call starts from.
C21_SecondTrainSameTree ==
    (Len(previous) >= 1 /\ ValidInput) =>
      /\ pc # "panicked"
      /\ pc = "done" => /\ DecisionNodes = previous[1].decisionNodes
                        /\ AverageErrors = previous[1].averageErrors
      /\ \A i \in 1..Len(leafQueue) : leafQueue[i] > previous[1].nodes

\* what precalcBestSplit can leave on the root Train has just created, over the
\* orders in which the map of allowed features may be iterated
RootOutcomes ==
    LET frameCount == Len(trainSamples) - frameSize + 1
        st0 == [nodes |-> <<RootNode(frameCount, TrueCount(TrainCtx, 0, frameCount))>>,
                arena |-> [j \in 1..frameCount |-> j - 1]]
    IN PrecalcOutcomes(TrainCtx, st0, 1, {allowed[i] : i \in 1..Len(allowed)})

\* C22: the tree is a function of samples, labels, frameSize and
\* minMisclassified alone: every order in which precalcBestSplit iterates over
\* the allowed features gives the same decideFeature and decideCutoff at every
\* branch; stated here for a root that has become a branch.  The code breaks
\* this when two features offer candidates with the same number of misses.
C22_OrderIndependent ==
    (HasTree /\ ValidInput /\ ~nodes[roots[1]].isLeaf) =>
      \A st \in RootOutcomes :
        /\ st.nodes[1].decideFeature = nodes[roots[1]].decideFeature
        /\ st.nodes[1].decideCutoff = nodes[roots[1]].decideCutoff

====
